---- MODULE Spec2Model ----
(***************************************************************************)
(* State-machine model of src/test2/script.js: a RainViewer radar overlay  *)
(* on a Leaflet map, with a frame list loaded once from a JSON feed, a     *)
(* cache of tile layers keyed by frame path, prev/next/play controls and   *)
(* one interval timer.  JavaScript is single threaded: every handler       *)
(* (click listener, interval callback, promise reaction) runs to           *)
(* completion, so each is one action.                                      *)
(***************************************************************************)
EXTENDS Integers, Sequences, FiniteSets, TLC

(***************************************************************************)
(* Bounds of the model.                                                    *)
(***************************************************************************)
\* number of distinct frame descriptors a feed may draw from
NumFrames == 2
\* largest number of frames in a feed, 'past' and 'nowcast' lists together
MaxFrames == 3

(***************************************************************************)
(* Program constants (script.js lines 24-38).                              *)
(***************************************************************************)
tileSize == 512
colorScheme == 2
smooth == 1
snow == 1
extension == "png"
\* the OpenStreetMap base layer added to the map at start-up; layer id 0
BaseLayer == 0

(***************************************************************************)
(* Feed values.  A frame descriptor is {path, time}; a response body is    *)
(* any JSON value, described by the shape the loader inspects.             *)
(***************************************************************************)
FrameSet ==
  { [path |-> "/v2/radar/" \o ToString(100 * i), time |-> 100 * i] : i \in 1..NumFrames }

FrameLists == UNION { [1..n -> FrameSet] : n \in 0..MaxFrames }

\* a member of the 'radar' object: absent, present but not an array, or an array
MissingList == [kind |-> "missing", items |-> <<>>]
ListVals ==
  { MissingList, [kind |-> "string", items |-> <<>>] }
    \cup { [kind |-> "array", items |-> l] : l \in FrameLists }

\* data.radar: absent, null (falsy), a truthy non-object, or an object
MissingRadar == [kind |-> "missing", past |-> MissingList, nowcast |-> MissingList]
RadarVals ==
  { MissingRadar,
    [kind |-> "null", past |-> MissingList, nowcast |-> MissingList],
    [kind |-> "number", past |-> MissingList, nowcast |-> MissingList] }
    \cup { r \in [kind : {"object"}, past : ListVals, nowcast : ListVals] :
              Len(r.past.items) + Len(r.nowcast.items) <= MaxFrames }

\* the tile hosts a feed may name
Hosts == { "https://tilecache.rainviewer.com", "https://cdn.example" }

\* the value of apiData before any assignment
Undefined == [kind |-> "undefined", host |-> "undefined"]
\* no body: the response never yields a parsed document
NoBody == [kind |-> "undefined", host |-> "undefined", radar |-> MissingRadar]
\* the JSON documents response.json() can resolve to
Bodies ==
  { [kind |-> "null", host |-> "undefined", radar |-> MissingRadar],
    [kind |-> "number", host |-> "undefined", radar |-> MissingRadar] }
    \cup { [kind |-> "object", host |-> h, radar |-> r] : h \in Hosts, r \in RadarVals }

\* how the fetch settles: the promise rejects, the status is not ok, the
\* body is not JSON, or the body parses to one of Bodies
Responses ==
  { [status |-> st, body |-> NoBody] : st \in {"rejected", "httpError", "parseError"} }
    \cup { [status |-> "ok", body |-> b] : b \in Bodies }
NoResponse == [status |-> "none", body |-> NoBody]

(***************************************************************************)
(* State.                                                                  *)
(***************************************************************************)
VARIABLES
  apiData,            \* JSON returned by the API: its kind and its host
  frames,             \* list of frame objects (past + nowcast)
  currentFrameIndex,  \* 0-based index into frames
  radarLayers,        \* cache: frame path -> tile layer [id, url]
  playing,            \* whether the animation is playing
  timer,              \* handle of the last interval created (0: undefined)
  activeTimers,       \* the host's set of live interval handles
  mapLayers,          \* ids of the layers currently on the map
  frameTime,          \* textContent of #frameTime
  playPause,          \* textContent of #playPause
  layerCount,         \* number of L.tileLayer overlays constructed so far
  fetchState,         \* "pending" until the fetch promise chain has run
  response,           \* history: the response the last call handled, if any
  op,                 \* history: the last handler or function that ran
  repeated,           \* history: the last two calls were the same call
  pre                 \* history: the program state before the last call

vars ==
  <<apiData, frames, currentFrameIndex, radarLayers, playing, timer,
    activeTimers, mapLayers, frameTime, playPause, layerCount, fetchState,
    response, op, repeated, pre>>

\* the program state as one record, so that the functions of the script can
\* be written as state transformers
Cur ==
  [apiData |-> apiData, frames |-> frames, currentFrameIndex |-> currentFrameIndex,
   radarLayers |-> radarLayers, playing |-> playing, timer |-> timer,
   activeTimers |-> activeTimers, mapLayers |-> mapLayers, frameTime |-> frameTime,
   playPause |-> playPause, layerCount |-> layerCount, fetchState |-> fetchState]

Become(s) ==
  /\ apiData' = s.apiData
  /\ frames' = s.frames
  /\ currentFrameIndex' = s.currentFrameIndex
  /\ radarLayers' = s.radarLayers
  /\ playing' = s.playing
  /\ timer' = s.timer
  /\ activeTimers' = s.activeTimers
  /\ mapLayers' = s.mapLayers
  /\ frameTime' = s.frameTime
  /\ playPause' = s.playPause
  /\ layerCount' = s.layerCount
  /\ fetchState' = s.fetchState

EmptyCache == [p \in {} |-> 0]

\* The state once the script has run to its end: the fetch is issued and
\* pending.  The page's markup is not part of the script; the timestamp
\* element is taken to start empty and the toggle to be labelled "Play".
InitState ==
  [apiData |-> Undefined, frames |-> <<>>, currentFrameIndex |-> 0,
   radarLayers |-> EmptyCache, playing |-> FALSE, timer |-> 0,
   activeTimers |-> {}, mapLayers |-> {BaseLayer}, frameTime |-> "",
   playPause |-> "Play", layerCount |-> 0, fetchState |-> "pending"]

(***************************************************************************)
(* The functions of the script.                                            *)
(***************************************************************************)
\* Date.prototype.toLocaleString of new Date(ms), in one fixed locale
toLocaleString(ms) == "date:" \o ToString(ms)

\* variant: the tile size of the layer options (256) is used in the URL
buildTileUrl_layerTileSize(s, frame) ==
  s.apiData.host \o frame.path \o "/" \o ToString(256) \o "/{z}/{x}/{y}/"
    \o ToString(colorScheme) \o "/" \o ToString(smooth) \o "_" \o ToString(snow)
    \o "." \o extension

buildTileUrl(s, frame) ==
  s.apiData.host \o frame.path \o "/" \o ToString(tileSize) \o "/{z}/{x}/{y}/"
    \o ToString(colorScheme) \o "/" \o ToString(smooth) \o "_" \o ToString(snow)
    \o "." \o extension

\* L.tileLayer(urlTemplate, options): a new layer object, identified by id
tileLayer(urlTemplate, id) == [id |-> id, url |-> urlTemplate]

\* the radar layers currently on the map
ActiveOverlays(s) == s.mapLayers \ {BaseLayer}

\* variant: the displayed layers are left on the map
clearRadarLayers_keep(s) == s

clearRadarLayers(s) ==
  [s EXCEPT !.mapLayers =
     @ \ { s.radarLayers[p].id : p \in DOMAIN s.radarLayers }]

\* variant: a negative position is sent to the first frame
WrapPosition_negToFirst(position, n) ==
  LET p1 == IF position < 0 THEN 0 ELSE position
  IN  IF p1 >= n THEN 0 ELSE p1

\* variant: a position past the end is sent to the last frame
WrapPosition_stayAtLast(position, n) ==
  LET p1 == IF position < 0 THEN n - 1 ELSE position
  IN  IF p1 >= n THEN n - 1 ELSE p1

\* variant: a position past the end is not wrapped
WrapPosition_noWrapHigh(position, n) ==
  IF position < 0 THEN n - 1 ELSE position

\* lines 85-86: wrap the position around the frames array of length n
WrapPosition(position, n) ==
  LET p1 == IF position < 0 THEN n - 1 ELSE position
  IN  IF p1 >= n THEN 0 ELSE p1

\* variant: the cache is not consulted, a layer is built on every display
CreateLayerIfMissing_always(s, frame) ==
  [s EXCEPT
     !.radarLayers =
        [p \in (DOMAIN @) \cup {frame.path} |->
           IF p = frame.path
             THEN [id |-> s.layerCount + 1, url |-> s.apiData.host \o frame.path]
             ELSE @[p]],
     !.layerCount = @ + 1]

\* lines 91-99: create the tile layer if it does not exist yet
CreateLayerIfMissing(s, frame) ==
  IF frame.path \notin DOMAIN s.radarLayers
    THEN [s EXCEPT
            !.radarLayers =
               @ @@ (frame.path :> tileLayer(buildTileUrl(s, frame), s.layerCount + 1)),
            !.layerCount = @ + 1]
    ELSE s

\* variant: the timestamp display is not updated
ShowFrameTime_skip(s, frame) == s

\* lines 105-107: update the timestamp display
ShowFrameTime(s, frame) ==
  [s EXCEPT !.frameTime = toLocaleString(frame.time * 1000)]

\* lines 85-107: the body of loadFrame past its guard.  When the index is
\* outside the array, frames[currentFrameIndex] is undefined and reading
\* frame.path throws a TypeError: the call ends with only the index assigned.
DisplayFrame(s, position) ==
  LET s1 == [s EXCEPT !.currentFrameIndex = WrapPosition(position, Len(s.frames))]
  IN  IF s1.currentFrameIndex + 1 \notin DOMAIN s1.frames THEN s1
      ELSE
        LET frame == s1.frames[s1.currentFrameIndex + 1]
            s2 == CreateLayerIfMissing(s1, frame)
            s3 == clearRadarLayers(s2)
            s4 == [s3 EXCEPT !.mapLayers = @ \cup {s3.radarLayers[frame.path].id}]
        IN  ShowFrameTime(s4, frame)

\* variant: no guard against an empty frames array
loadFrame_noEmptyGuard(s, position) == DisplayFrame(s, position)

\* variant: an empty frames array is reported in the timestamp display
loadFrame_reportsEmpty(s, position) ==
  IF Len(s.frames) = 0 THEN [s EXCEPT !.frameTime = "No data"]
  ELSE DisplayFrame(s, position)

loadFrame(s, position) ==
  IF Len(s.frames) = 0 THEN s
  ELSE DisplayFrame(s, position)

nextFrame(s) == loadFrame(s, s.currentFrameIndex + 1)

prevFrame(s) == loadFrame(s, s.currentFrameIndex - 1)

\* setInterval returns a handle no live or remembered interval has
NewTimerId(s) ==
  CHOOSE i \in 1..(Cardinality(s.activeTimers) + 2) :
    /\ i \notin s.activeTimers \cup {s.timer}
    /\ \A j \in 1..(i - 1) : j \in s.activeTimers \cup {s.timer}

\* variant: no check of the playing flag
startAnimation_noGuard(s) ==
  [s EXCEPT !.playing = TRUE,
            !.playPause = "Stop",
            !.timer = NewTimerId(s),
            !.activeTimers = @ \cup {NewTimerId(s)}]

startAnimation(s) ==
  IF s.playing THEN s
  ELSE [s EXCEPT !.playing = TRUE,
                 !.playPause = "Stop",
                 !.timer = NewTimerId(s),
                 !.activeTimers = @ \cup {NewTimerId(s)}]

\* variant: the interval is not cleared
stopAnimation_noClear(s) ==
  IF ~s.playing THEN s
  ELSE [s EXCEPT !.playing = FALSE, !.playPause = "Play"]

stopAnimation(s) ==
  IF ~s.playing THEN s
  ELSE [s EXCEPT !.playing = FALSE,
                 !.playPause = "Play",
                 !.activeTimers = @ \ {s.timer}]

\* variant: the nowcast list replaces the past list instead of following it
ComposeFrames_overwrite(data) ==
  LET radarTruthy == data.kind = "object" /\ data.radar.kind \in {"number", "object"}
      f1 == IF radarTruthy /\ data.radar.past.kind = "array"
              THEN data.radar.past.items ELSE <<>>
  IN  IF radarTruthy /\ data.radar.nowcast.kind = "array"
        THEN data.radar.nowcast.items ELSE f1

\* variant: the nowcast frames are put before the past frames
ComposeFrames_nowcastFirst(data) ==
  LET radarTruthy == data.kind = "object" /\ data.radar.kind \in {"number", "object"}
      f1 == IF radarTruthy /\ data.radar.past.kind = "array"
              THEN data.radar.past.items ELSE <<>>
  IN  IF radarTruthy /\ data.radar.nowcast.kind = "array"
        THEN data.radar.nowcast.items \o f1 ELSE f1

\* lines 184-190: past radar frames first, then nowcast if available
ComposeFrames(data) ==
  LET radarTruthy == data.kind = "object" /\ data.radar.kind \in {"number", "object"}
      f1 == IF radarTruthy /\ data.radar.past.kind = "array"
              THEN data.radar.past.items ELSE <<>>
  IN  IF radarTruthy /\ data.radar.nowcast.kind = "array"
        THEN f1 \o data.radar.nowcast.items ELSE f1

\* variant: the error is logged but not shown
onRejected_silent(s) == s

\* line 182: the document kept in apiData; nothing but its host is read
\* again (line 58), so the stored value is the document's kind and host
StoredData(data) == [kind |-> data.kind, host |-> data.host]

\* lines 199-202: the rejection handler of the promise chain
onRejected(s) == [s EXCEPT !.frameTime = "Error loading data"]

\* lines 181-198: the fulfilment handler; reading data.radar of null throws
\* a TypeError after the first two assignments, which the catch receives
onFulfilled(s, data) ==
  LET s1 == [s EXCEPT !.apiData = StoredData(data), !.frames = <<>>]
  IN  IF data.kind = "null" THEN onRejected(s1)
      ELSE
        LET s2 == [s1 EXCEPT !.frames = ComposeFrames(data)]
        IN  IF Len(s2.frames) = 0
              THEN [s2 EXCEPT !.frameTime = "No data"]
              ELSE loadFrame(s2, Len(s2.frames) - 1)

\* lines 173-203: the whole promise chain, run when the fetch settles
fetchFrames(s, r) ==
  LET s1 == [s EXCEPT !.fetchState = "done"]
  IN  IF r.status = "ok" THEN onFulfilled(s1, r.body) ELSE onRejected(s1)

(***************************************************************************)
(* Initial state and actions.                                              *)
(***************************************************************************)
\* the targets of a direct call loadFrame(k): from below -1 to above n
Targets == (0 - 2) .. (MaxFrames + 1)

Init ==
  /\ apiData = InitState.apiData
  /\ frames = InitState.frames
  /\ currentFrameIndex = InitState.currentFrameIndex
  /\ radarLayers = InitState.radarLayers
  /\ playing = InitState.playing
  /\ timer = InitState.timer
  /\ activeTimers = InitState.activeTimers
  /\ mapLayers = InitState.mapLayers
  /\ frameTime = InitState.frameTime
  /\ playPause = InitState.playPause
  /\ layerCount = InitState.layerCount
  /\ fetchState = InitState.fetchState
  /\ response = NoResponse
  /\ op = [name |-> "init", arg |-> 0]
  /\ repeated = FALSE
  /\ pre = InitState

\* a call of name(arg) takes the program to state s
Ran(name, arg, s) ==
  /\ Become(s)
  /\ op' = [name |-> name, arg |-> arg]
  /\ repeated' = (op = [name |-> name, arg |-> arg])
  /\ pre' = Cur

\* lines 147-153: click on the play/pause button
PlayPauseClick ==
  /\ Ran("playPauseClick", 0,
         IF playing THEN stopAnimation(Cur) ELSE startAnimation(Cur))
  /\ response' = NoResponse

\* variant: the listener does not stop the animation first
PrevFrameClick_noStop ==
  /\ Ran("prevFrameClick", 0, prevFrame(Cur))
  /\ response' = NoResponse

\* lines 155-158: click on the previous-frame button
PrevFrameClick ==
  /\ Ran("prevFrameClick", 0, prevFrame(stopAnimation(Cur)))
  /\ response' = NoResponse

\* lines 160-163: click on the next-frame button
NextFrameClick ==
  /\ Ran("nextFrameClick", 0, nextFrame(stopAnimation(Cur)))
  /\ response' = NoResponse

\* lines 131-133: a live interval fires its callback
TimerTick ==
  /\ \E id \in activeTimers : Ran("tick", id, nextFrame(Cur))
  /\ response' = NoResponse

\* lines 174-202: the fetch issued at start-up settles, once
FetchSettled ==
  /\ fetchState = "pending"
  /\ \E r \in Responses :
        /\ Ran("fetchFrames", 0, fetchFrames(Cur, r))
        /\ response' = r

\* a direct call loadFrame(k)
CallLoadFrame ==
  /\ \E k \in Targets : Ran("loadFrame", k, loadFrame(Cur, k))
  /\ response' = NoResponse

\* a direct call nextFrame()
CallNextFrame ==
  /\ Ran("nextFrame", 0, nextFrame(Cur))
  /\ response' = NoResponse

\* a direct call prevFrame()
CallPrevFrame ==
  /\ Ran("prevFrame", 0, prevFrame(Cur))
  /\ response' = NoResponse

\* a direct call startAnimation()
CallStartAnimation ==
  /\ Ran("startAnimation", 0, startAnimation(Cur))
  /\ response' = NoResponse

\* a direct call stopAnimation()
CallStopAnimation ==
  /\ Ran("stopAnimation", 0, stopAnimation(Cur))
  /\ response' = NoResponse

Next ==
  \/ PlayPauseClick
  \/ PrevFrameClick
  \/ NextFrameClick
  \/ TimerTick
  \/ FetchSettled
  \/ CallLoadFrame
  \/ CallNextFrame
  \/ CallPrevFrame
  \/ CallStartAnimation
  \/ CallStopAnimation

Spec == Init /\ [][Next]_vars

\* The interval created by setInterval fires every 500 ms for as long as it
\* is live: the callback is weakly fair.
\* A session in which the user only toggles the animation: the fetch
\* settles, the play/pause button is clicked, the interval callback runs.
PlaybackNext ==
  \/ FetchSettled
  \/ PlayPauseClick
  \/ TimerTick

LiveSpec == Init /\ [][PlaybackNext]_vars /\ WF_vars(TimerTick)

(***************************************************************************)
(* Properties.                                                             *)
(***************************************************************************)
Last(seq) == seq[Len(seq)]

\* a list of the feed, a missing or non-array one counting as empty
ListOf(l) == IF l.kind = "array" THEN l.items ELSE <<>>

\* the last call was the load of a successfully parsed body
LoadedBody == op.name = "fetchFrames" /\ response.status = "ok"

\* C1: at most one radar overlay is on the map in every reachable state:
\* none while the frame collection is empty, exactly one (a cached one) once
\* the collection is non-empty and a frame has been displayed.
C1_OneActiveOverlay ==
  /\ Cardinality(ActiveOverlays(Cur)) <= 1
  /\ Len(frames) = 0 => ActiveOverlays(Cur) = {}
  /\ Len(frames) > 0 =>
        /\ Cardinality(ActiveOverlays(Cur)) = 1
        /\ ActiveOverlays(Cur) \subseteq { radarLayers[p].id : p \in DOMAIN radarLayers }

\* a timer tick displayed a frame while another frame's layer was cached
C1_Witness ==
  /\ op.name = "tick"
  /\ Cardinality(DOMAIN radarLayers) >= 2
  /\ pre.mapLayers # mapLayers
  /\ Cardinality(ActiveOverlays(Cur)) = 1

\* C2: after loadFrame(i) on n > 0 frames the index lies in [0, n); target -1
\* gives n-1, target n gives 0, and a target k in [0, n) is kept.
C2_WrapAround ==
  (op.name = "loadFrame" /\ Len(frames) > 0) =>
     /\ currentFrameIndex \in 0..(Len(frames) - 1)
     /\ op.arg = 0 - 1 => currentFrameIndex = Len(frames) - 1
     /\ op.arg = Len(frames) => currentFrameIndex = 0
     /\ op.arg \in 0..(Len(frames) - 1) => currentFrameIndex = op.arg

\* loadFrame(-1) moved the index from elsewhere to the last of several frames
C2_Witness ==
  /\ op.name = "loadFrame"
  /\ op.arg = 0 - 1
  /\ Len(frames) >= 2
  /\ pre.currentFrameIndex # Len(frames) - 1
  /\ currentFrameIndex = Len(frames) - 1

\* C3: a second loadFrame(k) right after loadFrame(k), on a non-empty
\* collection, changes nothing: same index, same active overlay, same text,
\* same cache and no further layer constructed.
C3_DisplayIdempotent ==
  (op.name = "loadFrame" /\ repeated /\ Len(frames) > 0) =>
     /\ currentFrameIndex = pre.currentFrameIndex
     /\ mapLayers = pre.mapLayers
     /\ frameTime = pre.frameTime
     /\ radarLayers = pre.radarLayers
     /\ layerCount = pre.layerCount

\* loadFrame(k) ran twice in a row on several frames, k beyond the last index
C3_Witness ==
  /\ op.name = "loadFrame"
  /\ repeated
  /\ Len(frames) >= 2
  /\ op.arg > Len(frames)
  /\ Cardinality(ActiveOverlays(Cur)) = 1

\* C4: the number of live interval timers is 1 while playing and 0 while
\* not playing, in every reachable state.
C4_OneTimerIffPlaying ==
  /\ playing => activeTimers = {timer}
  /\ ~playing => activeTimers = {}

\* startAnimation() was called while already playing
C4_Witness ==
  /\ op.name = "startAnimation"
  /\ pre.playing
  /\ playing
  /\ Cardinality(activeTimers) = 1

\* C5: startAnimation() while playing and stopAnimation() while stopped
\* change nothing of the program state.
C5_StartStopNoOp ==
  (\/ op.name = "startAnimation" /\ pre.playing
   \/ op.name = "stopAnimation" /\ ~pre.playing) => Cur = pre

\* stopAnimation() was called while stopped, with a frame on display
C5_Witness ==
  /\ op.name = "stopAnimation"
  /\ ~pre.playing
  /\ Len(frames) > 0
  /\ Cur = pre

\* C6: after the load of a feed with a non-empty 'past' list, the frame on
\* display is the last element of the 'past' list.
C6_InitialFrameIsLastPast ==
  (LoadedBody /\ response.body.kind = "object"
     /\ response.body.radar.kind = "object"
     /\ Len(ListOf(response.body.radar.past)) > 0) =>
     /\ Len(frames) > 0
     /\ currentFrameIndex < Len(frames)
     /\ frames[currentFrameIndex + 1] = Last(ListOf(response.body.radar.past))

\* C7: after the load of a parsed feed object the collection is the 'past'
\* list followed by the 'nowcast' list (a missing list counting as empty);
\* when that is empty the text is "No data" and nothing is displayed.
C7_FeedComposition ==
  (LoadedBody /\ response.body.kind = "object") =>
     LET past == ListOf(response.body.radar.past)
         nowcast == ListOf(response.body.radar.nowcast)
     IN  /\ frames = past \o nowcast
         /\ (Len(past) = 0 /\ Len(nowcast) = 0) =>
               /\ frames = <<>>
               /\ frameTime = "No data"
               /\ radarLayers = pre.radarLayers
               /\ layerCount = pre.layerCount
               /\ mapLayers = pre.mapLayers
               /\ currentFrameIndex = pre.currentFrameIndex

\* a feed with both lists non-empty was loaded
C7_Witness ==
  /\ LoadedBody
  /\ response.body.kind = "object"
  /\ Len(ListOf(response.body.radar.past)) > 0
  /\ Len(ListOf(response.body.radar.nowcast)) > 0
  /\ Len(frames) =
       Len(ListOf(response.body.radar.past)) + Len(ListOf(response.body.radar.nowcast))

\* C8: after a response with a failure status or an unparsable body the
\* text is "Error loading data", everything else is as before the load, and
\* no request is pending again.
C8_FailedLoadKeepsState ==
  (op.name = "fetchFrames" /\ response.status \in {"httpError", "parseError"}) =>
     /\ frameTime = "Error loading data"
     /\ frames = pre.frames
     /\ apiData = pre.apiData
     /\ currentFrameIndex = pre.currentFrameIndex
     /\ radarLayers = pre.radarLayers
     /\ layerCount = pre.layerCount
     /\ mapLayers = pre.mapLayers
     /\ fetchState = "done"

\* the fetch came back with a failure status while the animation was playing
C8_Witness ==
  /\ op.name = "fetchFrames"
  /\ response.status = "httpError"
  /\ playing
  /\ frameTime = "Error loading data"

\* the body has the shape {host, radar: {past?: [...], nowcast?: [...]}}
FeedShaped(b) ==
  /\ b.kind = "object"
  /\ b.radar.kind = "object"
  /\ b.radar.past.kind \in {"missing", "array"}
  /\ b.radar.nowcast.kind \in {"missing", "array"}

\* C9: after the load of a parsed body that is not feed-shaped the
\* collection is empty and the text is "No data".
C9_OtherShapeIsNoData ==
  (LoadedBody /\ ~FeedShaped(response.body)) =>
     /\ frames = <<>>
     /\ frameTime = "No data"

\* C10: every cached path has had exactly one layer constructed for it: the
\* number of layers constructed equals the number of cached paths, distinct
\* paths hold distinct layers, and a call keeps every entry it found.
C10_OneLayerPerPath ==
  /\ layerCount = Cardinality(DOMAIN radarLayers)
  /\ \A p, q \in DOMAIN radarLayers : p # q => radarLayers[p].id # radarLayers[q].id
  /\ \A p \in DOMAIN pre.radarLayers :
        p \in DOMAIN radarLayers /\ radarLayers[p] = pre.radarLayers[p]
  /\ layerCount # pre.layerCount =>
        /\ layerCount = pre.layerCount + 1
        /\ frames[currentFrameIndex + 1].path \notin DOMAIN pre.radarLayers

\* a frame whose layer was already cached was displayed again by a click,
\* after another frame had been shown in between
C10_Witness ==
  /\ op.name = "prevFrameClick"
  /\ Cardinality(DOMAIN radarLayers) >= 2
  /\ pre.mapLayers # mapLayers
  /\ layerCount = pre.layerCount
  /\ radarLayers = pre.radarLayers

\* the calls that display a frame without touching the animation
DisplayCalls == {"loadFrame", "nextFrame", "prevFrame", "tick"}

\* C11: loadFrame, nextFrame, prevFrame and a timer tick on an empty frame
\* collection change nothing of the program state; a prev or next click on
\* an empty collection changes neither index, cache, map layers nor text.
C11_EmptyCollectionNoOp ==
  /\ (op.name \in DisplayCalls /\ Len(pre.frames) = 0) => Cur = pre
  /\ (op.name \in {"prevFrameClick", "nextFrameClick"} /\ Len(pre.frames) = 0) =>
        /\ currentFrameIndex = pre.currentFrameIndex
        /\ radarLayers = pre.radarLayers
        /\ layerCount = pre.layerCount
        /\ mapLayers = pre.mapLayers
        /\ frameTime = pre.frameTime

\* prevFrame() was called after a load that left the collection empty
C11_Witness ==
  /\ op.name = "prevFrame"
  /\ fetchState = "done"
  /\ Len(frames) = 0
  /\ frameTime = "No data"
  /\ currentFrameIndex = 0

\* a list of frames is non-decreasing by timestamp
SortedByTime(l) == \A i, j \in 1..Len(l) : i < j => l[i].time <= l[j].time

\* C12 as stated: the frame collection is non-decreasing by timestamp in
\* every reachable state.
C12_AlwaysSortedByTime == SortedByTime(frames)

\* C12 as amended: after the load of a feed object whose 'past' list followed
\* by its 'nowcast' list is non-decreasing by timestamp, the frame collection
\* is non-decreasing by timestamp.
C12_SortedWhenFeedSorted ==
  (LoadedBody /\ response.body.kind = "object"
     /\ SortedByTime(ListOf(response.body.radar.past)
                      \o ListOf(response.body.radar.nowcast))) =>
     SortedByTime(frames)

\* a feed with an earlier past frame and a later nowcast frame was loaded
C12_Witness ==
  /\ LoadedBody
  /\ Len(ListOf(response.body.radar.past)) > 0
  /\ Len(ListOf(response.body.radar.nowcast)) > 0
  /\ Last(ListOf(response.body.radar.past)).time
       < ListOf(response.body.radar.nowcast)[1].time
  /\ Len(frames) >= 2
  /\ SortedByTime(frames)

\* C13: the URL of every tile layer built is the feed's host, the frame's
\* path and "/512/{z}/{x}/{y}/2/1_1.png".
C13_TileUrl ==
  \A p \in DOMAIN radarLayers :
     radarLayers[p].url = apiData.host \o p \o "/512/{z}/{x}/{y}/2/1_1.png"

\* layers of two paths were built for a feed naming the second host
C13_Witness ==
  /\ Cardinality(DOMAIN radarLayers) >= 2
  /\ apiData.host = "https://cdn.example"
  /\ "/v2/radar/100" \in DOMAIN radarLayers
  /\ radarLayers["/v2/radar/100"].url
       = "https://cdn.example/v2/radar/100/512/{z}/{x}/{y}/2/1_1.png"

\* the animation plays over more than i frames and the timer callback is
\* the last thing that ran
OnlyTicks(i) == playing /\ i < Len(frames) /\ op.name = "tick"

\* C14: every tick on n > 0 frames moves the index to (index + 1) mod n, and
\* when from some point on the animation plays and only ticks run, every
\* frame index is displayed again and again.  (<>[]P => []<>Q is written in
\* its equivalent form []<>(~P \/ Q).)
C14_EveryFrameShownAgain ==
  /\ [](op.name = "tick" /\ Len(frames) > 0 =>
          currentFrameIndex = (pre.currentFrameIndex + 1) % Len(frames))
  /\ \A i \in 0..(MaxFrames - 1) :
        []<>(~OnlyTicks(i) \/ currentFrameIndex = i)

\* a tick wrapped the index from the last of three frames to the first
C14_Witness ==
  /\ op.name = "tick"
  /\ playing
  /\ Len(frames) = 3
  /\ pre.currentFrameIndex = 2
  /\ currentFrameIndex = 0

\* C15: a timer tick runs only when the animation was playing before it, and
\* it is the callback of the interval startAnimation created; so while the
\* animation is stopped no tick moves the index or the overlay.
C15_NoTickWhileStopped ==
  /\ op.name = "tick" => (pre.playing /\ op.arg = pre.timer)
  /\ (~pre.playing /\ (currentFrameIndex # pre.currentFrameIndex
                          \/ mapLayers # pre.mapLayers)) =>
        op.name \in {"prevFrameClick", "nextFrameClick", "fetchFrames",
                     "loadFrame", "nextFrame", "prevFrame"}

\* the play/pause button stopped an animation running over several frames
C15_Witness ==
  /\ op.name = "playPauseClick"
  /\ pre.playing
  /\ ~playing
  /\ activeTimers = {}
  /\ Len(frames) >= 2

RECURSIVE Advance(_, _)
\* k calls of nextFrame() from state s
Advance(s, k) == IF k = 0 THEN s ELSE Advance(nextFrame(s), k - 1)

\* C16: on a non-empty collection prevFrame() undoes the nextFrame() that
\* just ran and nextFrame() undoes the prevFrame() that just ran (same index,
\* same active overlay), and n calls of nextFrame() come back to the index
\* they started from.
C16_AdvanceRetreatInverse ==
  /\ (op.name = "nextFrame" /\ Len(frames) > 0) =>
        /\ prevFrame(Cur).currentFrameIndex = pre.currentFrameIndex
        /\ ActiveOverlays(prevFrame(Cur)) = ActiveOverlays(pre)
  /\ (op.name = "prevFrame" /\ Len(frames) > 0) =>
        /\ nextFrame(Cur).currentFrameIndex = pre.currentFrameIndex
        /\ ActiveOverlays(nextFrame(Cur)) = ActiveOverlays(pre)
  /\ Len(frames) > 0 =>
        Advance(Cur, Len(frames)).currentFrameIndex = currentFrameIndex

\* prevFrame() wrapped from the first of three frames to the last, right
\* after nextFrame() had wrapped the other way
C16_Witness ==
  /\ op.name = "prevFrame"
  /\ Len(frames) = 3
  /\ pre.currentFrameIndex = 0
  /\ currentFrameIndex = 2
  /\ nextFrame(Cur).currentFrameIndex = 0

C19_StepClickStops ==
  /\ op.name \in {"prevFrameClick", "nextFrameClick"} =>
        /\ ~playing
        /\ activeTimers = {}
        /\ playPause = "Play"
  /\ (op.name = "nextFrameClick" /\ Len(frames) > 0) =>
        currentFrameIndex = (pre.currentFrameIndex + 1) % Len(frames)
  /\ (op.name = "prevFrameClick" /\ Len(frames) > 0) =>
        currentFrameIndex = (pre.currentFrameIndex + Len(frames) - 1) % Len(frames)

\* the previous-frame button was clicked while the animation was playing
C19_Witness ==
  /\ op.name = "prevFrameClick"
  /\ pre.playing
  /\ ~playing
  /\ Len(frames) >= 2
  /\ currentFrameIndex # pre.currentFrameIndex

StatusTexts == {"Error loading data", "No data"}

====
